---------------------------- MODULE Spec2Model ----------------------------
(***************************************************************************)
(* A model of project1.py: the /task workflow of the auto-deployer.        *)
(*                                                                         *)
(* One server process runs the FastAPI application.  task_endpoint is an   *)
(* `async def` that never awaits: every GitHub call, every requests.post   *)
(* and every time.sleep blocks the event loop, so one handler runs from    *)
(* its first line to its response before the next request is looked at.   *)
(* The remote side (GitHub, the evaluator, attachment hosts, the clock)    *)
(* is the environment: every outbound call has the outcomes the remote     *)
(* can produce, and a second deployment holding the same token may create *)
(* a repository at any moment.  evaluate_endpoint is one step: after its    *)
(* body is read it runs to its return.                                     *)
(*                                                                         *)
(* Spec is the whole service.  SpecName, SpecDecode and SpecWrite run one   *)
(* part of task_endpoint (identity resolution, attachment decoding, the    *)
(* loop of create_or_update_file with a concurrent remote writer) from the *)
(* state the handler is in when it reaches that part, over more inputs.    *)
(*                                                                         *)
(* Strings the code inspects character by character (email, task) are      *)
(* sequences of one-character strings.                                     *)
(***************************************************************************)
EXTENDS Integers, Sequences, FiniteSets, TLC

\* ------------------------------------------------------------------ bounds

\* /task requests delivered to the server in one behaviour.
MaxRequests == 2

\* Times the clock is observed to advance in one behaviour.
MaxClock == 1

\* ------------------------------------------------------- configuration

\* os.getenv("SECRET"), os.getenv("GITHUB_USERNAME")
SECRET == "s3cret"

GITHUB_USERNAME == "owner"

\* Python's None; every nullable value of the model is a tuple
None == <<>>

\* ------------------------------------------------------------- strings

UPPER == <<"A","B","C","D","E","F","G","H","I","J","K","L","M",
           "N","O","P","Q","R","S","T","U","V","W","X","Y","Z">>

LOWER == <<"a","b","c","d","e","f","g","h","i","j","k","l","m",
           "n","o","p","q","r","s","t","u","v","w","x","y","z">>

DIGITS == {"0","1","2","3","4","5","6","7","8","9"}

Range(s) == {s[i] : i \in 1..Len(s)}

\* str.lower() on one character
lower_char(c) ==
    IF \E i \in 1..Len(UPPER) : UPPER[i] = c
    THEN LOWER[CHOOSE i \in 1..Len(UPPER) : UPPER[i] = c]
    ELSE c

\* str.lower()
lower(s) == [i \in 1..Len(s) |-> lower_char(s[i])]

\* str.isalnum() on one character
isalnum(c) == c \in Range(UPPER) \cup Range(LOWER) \cup DIGITS

\* s.replace(a, b) for one-character a and b
replace_char(s, a, b) == [i \in 1..Len(s) |-> IF s[i] = a THEN b ELSE s[i]]

\* s.split(sep)[0]: the part of s before the first sep, all of s without one
split_first(s, sep) ==
    IF \E i \in 1..Len(s) : s[i] = sep
    THEN SubSeq(s, 1, (CHOOSE i \in 1..Len(s) :
                          s[i] = sep /\ \A j \in 1..(i-1) : s[j] # sep) - 1)
    ELSE s

\* s[:n]
take(s, n) == SubSeq(s, 1, IF Len(s) < n THEN Len(s) ELSE n)

\* ------------------------------------------------- identity resolution

\* the slice bound of task_clean
TaskCleanLen == 40

\* "".join(c if c.isalnum() or c in "-_" else "-" for c in task.lower())[:40]
task_clean(task) ==
    take([i \in 1..Len(task) |->
            IF isalnum(lower(task)[i]) \/ lower(task)[i] \in {"-", "_"}
            THEN lower(task)[i] ELSE "-"], TaskCleanLen)

\* email.split("@")[0].replace(".", "-").lower()
user_part(email) == lower(replace_char(split_first(email, "@"), ".", "-"))

deterministic_repo_name(email, task) ==
    user_part(email) \o <<"-">> \o task_clean(task)


\* --------------------------------------------------------- dictionaries

\* A Python dict: its keys in insertion order and their values.
EmptyDict == [keys |-> <<>>, val |-> <<>>]

Has(d, k) == k \in Range(d.keys)

\* d[k] = v
DictSet(d, k, v) ==
    [keys |-> IF Has(d, k) THEN d.keys ELSE Append(d.keys, k),
     val  |-> [x \in Range(d.keys) \cup {k} |-> IF x = k THEN v ELSE d.val[x]]]

\* d.update(e), the first n keys of e
RECURSIVE DictUpdateN(_, _, _)
DictUpdateN(d, e, n) ==
    IF n = 0 THEN d
    ELSE DictSet(DictUpdateN(d, e, n - 1), e.keys[n], e.val[e.keys[n]])

\* d.update(e)
DictUpdate(d, e) == DictUpdateN(d, e, Len(e.keys))

\* ------------------------------------------------------------ requests

EmailA == <<"A","n",".","L","@","d",".","x">>

TaskA == <<"S","u","m"," ","1">>

TaskB == <<"m","d","_","2">>

EvalUrl == "https://evaluator/notify"

\* An inline attachment: data:text/csv;base64,aGk=
AttCsv == [name |-> "data.csv",
           url  |-> <<"data:", "text/csv;base64", ",", "aGk=">>]

\* An attachment the server has to fetch.
AttRemote == [name |-> "input.md", url |-> <<"https:", "//files/input.md">>]

\* TaskRequest
ReqA1 == [email |-> EmailA, secret |-> SECRET, task |-> TaskA, round |-> 1,
          nonce |-> "n1", brief |-> <<"brief-1">>, checks |-> <<>>,
          evaluation_url |-> EvalUrl, attachments |-> <<AttCsv>>]

ReqA2 == [email |-> EmailA, secret |-> SECRET, task |-> TaskA, round |-> 2,
          nonce |-> "n2", brief |-> <<"brief-2">>, checks |-> <<>>,
          evaluation_url |-> EvalUrl, attachments |-> <<AttRemote>>]

ReqB1 == [email |-> EmailA, secret |-> SECRET, task |-> TaskB, round |-> 1,
          nonce |-> "n1", brief |-> <<>>, checks |-> <<>>,
          evaluation_url |-> EvalUrl, attachments |-> <<>>]

ReqBad == [ReqA1 EXCEPT !.secret = "guess"]

\* The /task bodies the callers send.
TaskRequests == {ReqA1, ReqA2, ReqB1, ReqBad}

\* Bodies an attachment host may serve.
Bodies == {<<"body-1">>, <<"body-2">>}

\* ------------------------------------------------------ secret check

\* a secret check that lets every request through
verify_secret_any(secret) == TRUE

\* verify_secret raises HTTPException(403) unless this holds
verify_secret(secret) == secret = SECRET

\* ---------------------------------------------------- content building

\* MIT_LICENSE_TEXT with <YEAR> and <AUTHOR> replaced
LicenseText(y, author) == <<"MIT License", y, author>>

\* the README ensure_repo commits into a new repository
InitialReadme == <<"Auto-generated repo">>

\* the three generated files of build_default_app_files, in dict order
BaseFiles(brief, y) ==
    DictSet(DictSet(DictSet(EmptyDict,
        "index.html", <<"index.html", brief>>),
        "README.md", <<"Auto-generated App", brief>>),
        "LICENSE", LicenseText(y, GITHUB_USERNAME))

\* payload.brief or payload.task
BriefOf(p) == IF p.brief # <<>> THEN p.brief ELSE p.task

\* ----------------------------------------------------- attachment decoding

\* url.startswith("data:")
IsDataUri(url) == Len(url) > 0 /\ url[1] = "data:"

\* whether url.split(",", 1) has an element [1]
HasComma(url) == \E i \in 1..Len(url) : url[i] = ","

\* url.split(",", 1)[1]
AfterComma(url) ==
    SubSeq(url, (CHOOSE i \in 1..Len(url) :
                    url[i] = "," /\ \A j \in 1..(i-1) : url[j] # ",") + 1,
           Len(url))

\* base64.b64decode: the bytes of a payload, ok = FALSE for binascii.Error
b64decode(encoded) ==
    IF encoded = <<"aGk=">> THEN [ok |-> TRUE, bytes |-> <<104, 105>>]
    ELSE IF encoded = <<"/w==">> THEN [ok |-> TRUE, bytes |-> <<255>>]
    \* validate=False: characters outside the alphabet are discarded
    ELSE IF encoded = <<"@@@">> THEN [ok |-> TRUE, bytes |-> <<>>]
    ELSE [ok |-> FALSE, bytes |-> <<>>]

\* whether bytes.decode("utf-8") succeeds
is_utf8(bytes) == \A i \in 1..Len(bytes) : bytes[i] < 128

\* bytes.decode("utf-8")
utf8_decode(bytes) == <<"utf-8", bytes>>

\* bytes.decode("latin-1", errors="ignore")
latin1_decode(bytes) == <<"latin-1", bytes>>

\* the data: branch of decode_attachment_to_files: the text stored under the
\* attachment's name, None when the attachment is dropped
DecodeDataUri(url) ==
    IF ~HasComma(url) THEN None
    ELSE IF ~b64decode(AfterComma(url)).ok THEN None
    ELSE IF is_utf8(b64decode(AfterComma(url)).bytes)
         THEN utf8_decode(b64decode(AfterComma(url)).bytes)
         ELSE latin1_decode(b64decode(AfterComma(url)).bytes)

\* --------------------------------------------------------- the remote

\* Blob SHA of a content: the revision marker update_file must present.
Sha(content) == <<"sha", content>>

\* repo.html_url
RepoUrl(name) == <<"https://github.com", GITHUB_USERNAME, name>>

\* f"https://{GITHUB_USERNAME}.github.io/{repo.name}/"
PagesUrl(name) == <<"https://github.io", GITHUB_USERNAME, name>>

\* A repository right after create_repo(auto_init=False); origin tells who
\* created it: <<"server", key>> for the request of this server that did,
\* <<"foreign">> for another deployment.
NewRepo(by) == [files |-> <<>>, commits |-> 0, pages |-> FALSE, origin |-> by]

\* a commit whose tree holds nothing but the path written
Commit_only(repo, path, content) ==
    [repo EXCEPT !.files = [x \in {path} |-> content],
                 !.commits = repo.commits + 1]

\* A commit that sets one path of a repository to a content.
Commit(repo, path, content) ==
    [repo EXCEPT !.files = [x \in DOMAIN repo.files \cup {path} |->
                               IF x = path THEN content ELSE repo.files[x]],
                 !.commits = repo.commits + 1]

\* Names under which this deployment's requests can look for a repository.
RepoNames == {deterministic_repo_name(r.email, r.task) : r \in TaskRequests}

\* ---------------------------------------------------------------- state

VARIABLES
    TASKS,      \* the TASKS dict: (email, task, round, nonce) -> metadata
    task_log,   \* the lines of task_log.jsonl
    pc,         \* where the /task handler stands ("idle": none is running)
    payload,    \* the TaskRequest it handles
    local,      \* its local variables and those of the helper it is in
    response,   \* the answer the /task caller got last
    repos,      \* GitHub: repository name -> files, commit count, Pages
    now,        \* the clock: timestamps handed out by utcnow()
    year,       \* utcnow().year
    nreq,       \* /task requests delivered so far
    run,        \* what the current handler run has been seen to do
    populated,  \* repository name -> the request whose FileSet it holds
    data,       \* the body of the /evaluate call handled last
    eval_response, \* the answer its caller got
    evaluate_log   \* the lines of evaluate_log.jsonl

\* data and eval_response tell of the /evaluate calls since the last /task
\* receipt
evaluate_vars == <<data, eval_response, evaluate_log>>

vars == <<TASKS, task_log, pc, payload, local, response, repos, now, year,
          nreq, run, populated, data, eval_response, evaluate_log>>

\* the locals of task_endpoint and of the helper it is executing
InitLocal ==
    [repo_name |-> None, created |-> FALSE, files |-> EmptyDict,
     decoded |-> EmptyDict, k |-> 0, sha |-> None, pages_url |-> None,
     commit_sha |-> None, attempt |-> 0, delay |-> <<0, 1>>]

NoResponse == [status |-> 0, detail |-> None, repo_url |-> None, pages_url |-> None]

\* raise HTTPException(status_code, detail), as FastAPI answers it
HttpError(status, detail) ==
    [status |-> status, detail |-> detail, repo_url |-> None, pages_url |-> None]

\* an exception no handler catches: FastAPI answers 500
Unhandled == HttpError(500, <<"Internal Server Error">>)

\* observations of a run: the remote as the handler found it; whether a
\* repository call, a Pages call or an evaluation POST failed on the remote's
\* side; whether the request repeats the one that populated its repository;
\* the evaluation POSTs sent; the time.sleep calls of the retry loop being
\* executed; whether an update was refused for its marker
InitRun(r) == [pre |-> r, fault |-> FALSE, resub |-> FALSE, posts |-> 0, sleeps |-> <<>>,
               refused |-> FALSE]

\* datetime.datetime.utcnow().isoformat()
Stamp == <<year, now>>

Init ==
    /\ TASKS = <<>>
    /\ task_log = <<>>
    /\ pc = "idle"
    /\ payload = None
    /\ local = InitLocal
    /\ response = NoResponse
    /\ repos = <<>>
    /\ now = 0
    /\ year = 2025
    /\ nreq = 0
    /\ run = InitRun(<<>>)
    /\ populated = <<>>
    /\ data = None
    /\ eval_response = NoResponse
    /\ evaluate_log = <<>>

\* f with x mapped to v
Put(f, x, v) == [y \in DOMAIN f \cup {x} |-> IF y = x THEN v ELSE f[y]]

\* f without x
Drop(f, x) == [y \in DOMAIN f \ {x} |-> f[y]]

\* the handler ends by raising: nothing in task_endpoint catches
Raise(resp) ==
    /\ pc' = "done"
    /\ response' = resp

\* ------------------------------------------------------- the environment

\* the handler positions whose next step reads utcnow()
ReadsClock == {"record", "log", "init_license", "build"}

\* Time passes; a new year may begin.  The clock is advanced between two
\* requests and right before a step that reads it: a tick anywhere else
\* commutes with the steps up to the next reading.
Tick ==
    /\ pc \in {"idle"} \cup ReadsClock
    /\ now < MaxClock
    /\ now' = now + 1
    /\ \E y \in {year, year + 1} : year' = y
    /\ UNCHANGED <<TASKS, task_log, pc, payload, local, response, repos, nreq,
                   run, populated>>
    /\ UNCHANGED evaluate_vars

\* Another deployment working on the same task creates the repository.
ForeignCreateRepo ==
    /\ \E n \in RepoNames \ DOMAIN repos : repos' = Put(repos, n, NewRepo(<<"foreign">>))
    /\ UNCHANGED <<TASKS, task_log, pc, payload, local, response, now, year,
                   nreq, run, populated>>
    /\ UNCHANGED evaluate_vars

\* ------------------------------------------------ task_endpoint: receipt

\* a repository name that also depends on the round
RepoNameFor_round(p) ==
    deterministic_repo_name(p.email, p.task \o <<"-", IF p.round = 1 THEN "1" ELSE "2">>)

\* repo_name = deterministic_repo_name(payload.email, payload.task)
RepoNameFor(p) == deterministic_repo_name(p.email, p.task)

\* No handler is running.  task_endpoint is a coroutine that never awaits:
\* from its first line to its response it keeps the event loop, through every
\* GitHub call, requests.post and time.sleep.
EventLoopFree == pc = "idle"

\* POST /task arrives while the event loop is free.
TaskReceive ==
    /\ EventLoopFree
    /\ nreq < MaxRequests
    /\ \E p \in TaskRequests : payload' = p
    /\ pc' = "verify"
    /\ local' = InitLocal
    /\ run' = InitRun(repos)
    /\ response' = NoResponse
    /\ nreq' = nreq + 1
    /\ data' = None
    /\ eval_response' = NoResponse
    /\ UNCHANGED <<TASKS, task_log, repos, now, year, populated, evaluate_log>>

\* verify_secret(payload.secret)
VerifySecret ==
    /\ pc = "verify"
    /\ IF verify_secret(payload.secret)
       THEN pc' = "record" /\ UNCHANGED response
       ELSE Raise(HttpError(403, <<"Invalid secret">>))
    /\ UNCHANGED <<TASKS, task_log, payload, local, repos, now, year, nreq,
                   run, populated>>
    /\ UNCHANGED evaluate_vars

\* a key that leaves the nonce out
KeyOf_no_nonce(p) == <<p.email, p.task, p.round, "">>

\* key = (payload.email, payload.task, payload.round, payload.nonce)
KeyOf(p) == <<p.email, p.task, p.round, p.nonce>>

\* TASKS[key] = {"received_at": ..., "payload": ...}
Record ==
    /\ pc = "record"
    /\ TASKS' = Put(TASKS, KeyOf(payload), [received_at |-> Stamp, payload |-> payload])
    /\ pc' = "log"
    /\ UNCHANGED <<task_log, payload, local, response, repos, now, year, nreq,
                   run, populated>>
    /\ UNCHANGED evaluate_vars

\* the append to task_log.jsonl, then the repository name and the client
Log ==
    /\ pc = "log"
    /\ task_log' = Append(task_log, [time |-> Stamp, payload |-> payload])
    /\ local' = [local EXCEPT !.repo_name = RepoNameFor(payload)]
    /\ run' = [run EXCEPT !.resub =
                  /\ RepoNameFor(payload) \in DOMAIN populated
                  /\ populated[RepoNameFor(payload)] = payload]
    /\ pc' = "get_repo"
    /\ UNCHANGED <<TASKS, payload, response, repos, now, year, nreq, populated>>
    /\ UNCHANGED evaluate_vars

\* --------------------------------------------------- ensure_repo

\* What a call can come back with.  "error" is a failure on the remote's side
\* (a 5xx, a rate limit, a dropped connection, a timeout): PyGithub and
\* requests raise for it.  For a lookup of something absent the failure and
\* the 404 take the same except branch and are one outcome, "not_found".
GetRepoOutcomes(name) ==
    IF name \in DOMAIN repos THEN {"ok", "error"} ELSE {"not_found"}

\* user_obj.get_repo(repo_name) inside try / except Exception
GetRepo ==
    /\ pc = "get_repo"
    /\ \E out \in GetRepoOutcomes(local.repo_name) :
          /\ pc' = IF out = "ok" THEN "build" ELSE "create_repo"
          /\ run' = [run EXCEPT !.fault = @ \/ out = "error"]
    /\ UNCHANGED <<TASKS, task_log, payload, local, response, repos, now, year,
                   nreq, populated>>
    /\ UNCHANGED evaluate_vars

\* GitHub refuses a name the account already has (422)
CreateRepoOutcomes(name) ==
    IF name \in DOMAIN repos THEN {"rejected", "error"} ELSE {"ok", "error"}

\* user_obj.create_repo(...) in the except branch: nothing catches what it raises
CreateRepo ==
    /\ pc = "create_repo"
    /\ \E out \in CreateRepoOutcomes(local.repo_name) :
          /\ run' = [run EXCEPT !.fault = @ \/ out = "error"]
          /\ IF out = "ok"
             THEN /\ repos' = Put(repos, local.repo_name,
                                  NewRepo(<<"server", KeyOf(payload)>>))
                  /\ pc' = "init_readme"
                  /\ UNCHANGED response
             ELSE /\ Raise(Unhandled)
                  /\ UNCHANGED repos
    /\ UNCHANGED <<TASKS, task_log, payload, local, now, year, nreq, populated>>
    /\ UNCHANGED evaluate_vars

\* GitHub refuses to create a path that exists (422: "sha" wasn't supplied)
CreateFileOutcomes(name, path) ==
    IF path \in DOMAIN repos[name].files THEN {"rejected", "error"} ELSE {"ok", "error"}

\* repo.create_file(path, message, content) where nothing catches; pc goes to
\* `next` when the file is committed
CreateFileUncaught(path, content, next) ==
    \E out \in CreateFileOutcomes(local.repo_name, path) :
       /\ run' = [run EXCEPT !.fault = @ \/ out = "error"]
       /\ IF out = "ok"
          THEN /\ repos' = [repos EXCEPT ![local.repo_name] = Commit(@, path, content)]
               /\ populated' = Drop(populated, local.repo_name)
               /\ pc' = next
               /\ UNCHANGED response
          ELSE /\ Raise(Unhandled)
               /\ UNCHANGED <<repos, populated>>

\* repo.create_file("README.md", "Add README", readme)
InitReadme ==
    /\ pc = "init_readme"
    /\ CreateFileUncaught("README.md", InitialReadme, "init_license")
    /\ UNCHANGED <<TASKS, task_log, payload, local, now, year, nreq>>
    /\ UNCHANGED evaluate_vars

\* repo.create_file("LICENSE", "Add MIT license", mit_text); return repo, True
InitLicense ==
    /\ pc = "init_license"
    /\ CreateFileUncaught("LICENSE", LicenseText(year, GITHUB_USERNAME), "build")
    /\ local' = [local EXCEPT !.created = (pc' = "build")]
    /\ UNCHANGED <<TASKS, task_log, payload, now, year, nreq>>
    /\ UNCHANGED evaluate_vars

\* ----------------------------------------- build_default_app_files

\* html, then the files dict; decode_attachment_to_files starts
Build ==
    /\ pc = "build"
    /\ local' = [local EXCEPT !.files = BaseFiles(BriefOf(payload), year),
                              !.decoded = EmptyDict, !.k = 1]
    /\ pc' = "decode"
    /\ UNCHANGED <<TASKS, task_log, payload, response, repos, now, year, nreq,
                   run, populated>>
    /\ UNCHANGED evaluate_vars

\* the answers requests.get(url, timeout=5) can get; an attachment that is
\* skipped or inline makes no request
FetchOutcomes(att) ==
    IF att.name = "" \/ att.url = <<>> \/ IsDataUri(att.url)
    THEN {[status |-> "none", text |-> None]}
    ELSE {[status |-> "200", text |-> b] : b \in Bodies}
         \cup {[status |-> "non200", text |-> None], [status |-> "error", text |-> None]}

\* a decoder that loses what it has decoded when a data URI is bad
DecodeOne_abort(d, att, r) ==
    IF att.name = "" \/ att.url = <<>> THEN d
    ELSE IF IsDataUri(att.url)
         THEN IF DecodeDataUri(att.url) = None THEN EmptyDict
              ELSE DictSet(d, att.name, DecodeDataUri(att.url))
         ELSE IF r.status = "200" THEN DictSet(d, att.name, r.text) ELSE d

\* what one attachment leaves in the files dict of decode_attachment_to_files
DecodeOne(d, att, r) ==
    IF att.name = "" \/ att.url = <<>> THEN d
    ELSE IF IsDataUri(att.url)
         THEN IF DecodeDataUri(att.url) = None THEN d
              ELSE DictSet(d, att.name, DecodeDataUri(att.url))
         ELSE IF r.status = "200" THEN DictSet(d, att.name, r.text) ELSE d

\* one turn of the loop over attachments; after the last, files.update(decoded)
\* and the loop over files.items() starts
Decode ==
    /\ pc = "decode"
    /\ IF local.k <= Len(payload.attachments)
       THEN \E r \in FetchOutcomes(payload.attachments[local.k]) :
               /\ local' = [local EXCEPT
                     !.decoded = DecodeOne(@, payload.attachments[local.k], r),
                     !.k = @ + 1]
               /\ pc' = "decode"
       ELSE /\ local' = [local EXCEPT !.files = DictUpdate(@, local.decoded), !.k = 1]
            /\ pc' = "get_contents"
    /\ UNCHANGED <<TASKS, task_log, payload, response, repos, now, year, nreq,
                   run, populated>>
    /\ UNCHANGED evaluate_vars

\* ------------------------------------------- create_or_update_file

\* the path and content of the current turn of `for path, content in files.items()`
CurPath == local.files.keys[local.k]

CurContent == local.files.val[CurPath]

GetContentsOutcomes(name, path) ==
    IF path \in DOMAIN repos[name].files THEN {"ok", "error"} ELSE {"not_found"}

\* existing = repo.get_contents(path), inside the try
GetContents ==
    /\ pc = "get_contents"
    /\ \E out \in GetContentsOutcomes(local.repo_name, CurPath) :
          /\ run' = [run EXCEPT !.fault = @ \/ out = "error"]
          /\ IF out = "ok"
             THEN /\ local' = [local EXCEPT
                        !.sha = Sha(repos[local.repo_name].files[CurPath])]
                  /\ pc' = "update_file"
             ELSE /\ pc' = "create_file"
                  /\ UNCHANGED local
    /\ UNCHANGED <<TASKS, task_log, payload, response, repos, now, year, nreq,
                   populated>>
    /\ UNCHANGED evaluate_vars

\* GitHub refuses an update whose sha is not the blob's (409) or whose path is
\* gone
UpdateFileOutcomes(name, path, sha) ==
    IF path \in DOMAIN repos[name].files /\ Sha(repos[name].files[path]) = sha
    THEN {"ok", "error"}
    ELSE {"rejected", "error"}

\* the pc after a path is written: the next path, or enable_github_pages_rest
AfterWrite == IF local.k < Len(local.files.keys) THEN "get_contents" ELSE "pages_main"

\* the effect of a committed write of the current path
Written ==
    /\ repos' = [repos EXCEPT ![local.repo_name] = Commit(@, CurPath, CurContent)]
    /\ populated' = IF AfterWrite = "pages_main"
                    THEN Put(populated, local.repo_name, payload)
                    ELSE Drop(populated, local.repo_name)
    /\ local' = [local EXCEPT !.k = @ + 1, !.sha = None]
    /\ pc' = AfterWrite

\* Another deployment commits to the path between the existence check and
\* the update: the marker the handler holds is stale from then on.  A remote
\* write at any other moment leaves the handler with a current marker.
ForeignWrite ==
    /\ pc = "update_file"
    /\ Sha(repos[local.repo_name].files[CurPath]) = local.sha
    /\ repos' = [repos EXCEPT ![local.repo_name] = Commit(@, CurPath, <<"foreign">>)]
    /\ populated' = Drop(populated, local.repo_name)
    /\ UNCHANGED <<TASKS, task_log, pc, payload, local, response, now, year, nreq, run>>
    /\ UNCHANGED evaluate_vars

\* an update that presents no marker
ExistingSha_none == None

\* the marker update_file is given: existing.sha
ExistingSha == local.sha

\* repo.update_file(path, commit_message, content, existing.sha), inside the try
UpdateFile ==
    /\ pc = "update_file"
    /\ \E out \in UpdateFileOutcomes(local.repo_name, CurPath, ExistingSha) :
          /\ run' = [run EXCEPT !.fault = @ \/ out = "error",
                                !.refused = @ \/ out = "rejected"]
          /\ IF out = "ok"
             THEN Written
             ELSE /\ pc' = "create_file"
                  /\ UNCHANGED <<local, repos, populated>>
    /\ UNCHANGED <<TASKS, task_log, payload, response, now, year, nreq>>
    /\ UNCHANGED evaluate_vars

\* repo.create_file(path, commit_message, content) in the except branch
CreateFile ==
    /\ pc = "create_file"
    /\ \E out \in CreateFileOutcomes(local.repo_name, CurPath) :
          /\ run' = [run EXCEPT !.fault = @ \/ out = "error"]
          /\ IF out = "ok"
             THEN Written /\ UNCHANGED response
             ELSE Raise(Unhandled) /\ UNCHANGED <<local, repos, populated>>
    /\ UNCHANGED <<TASKS, task_log, payload, now, year, nreq>>
    /\ UNCHANGED evaluate_vars

\* ----------------------------------------- enable_github_pages_rest

\* The answers to POST /repos/{owner}/{repo}/pages: 201 when the site is
\* created, a refusal (409 once a site exists, 422 for a branch the repository
\* does not have, 5xx), or no answer at all: requests.post raises.
PagesPostOutcomes(name) ==
    IF repos[name].pages THEN {"rejected", "error"} ELSE {"created", "rejected", "error"}

\* one requests.post(api_url, json=payload, ...) and the test of its status:
\* on 201/204 the function returns the site's URL, otherwise it goes on at
\* `next`; nothing catches an exception of requests.post
PagesPost(next) ==
    \E out \in PagesPostOutcomes(local.repo_name) :
       /\ run' = [run EXCEPT !.fault = @ \/ out = "error", !.sleeps = <<>>]
       /\ IF out = "created"
          THEN /\ repos' = [repos EXCEPT ![local.repo_name].pages = TRUE]
               /\ local' = [local EXCEPT !.pages_url = PagesUrl(local.repo_name),
                                         !.attempt = 0, !.delay = <<1, 1>>]
               /\ pc' = "get_commits"
               /\ UNCHANGED response
          ELSE IF out = "rejected"
          THEN /\ pc' = next
               /\ UNCHANGED <<local, repos, response>>
          ELSE /\ Raise(Unhandled)
               /\ UNCHANGED <<local, repos>>

\* r = requests.post(... "branch": "main" ...)
PagesMain ==
    /\ pc = "pages_main"
    /\ PagesPost("pages_master")
    /\ UNCHANGED <<TASKS, task_log, payload, now, year, nreq, populated>>
    /\ UNCHANGED evaluate_vars

\* r2 = requests.post(... "branch": "master" ...)
PagesMaster ==
    /\ pc = "pages_master"
    /\ PagesPost("pages_get")
    /\ UNCHANGED <<TASKS, task_log, payload, now, year, nreq, populated>>
    /\ UNCHANGED evaluate_vars

\* The answers to GET /repos/{owner}/{repo}/pages: the site's configuration
\* once a site exists, a 200 whose body is no JSON or names no html_url, any
\* other status, or no answer at all.
PagesGetOutcomes(name) ==
    IF repos[name].pages
    THEN {"config", "no_json", "no_html_url", "other", "error"}
    ELSE {"other", "error"}

\* r3 = requests.get(api_url, ...); return r3.json().get("html_url") or None
PagesGet ==
    /\ pc = "pages_get"
    /\ \E out \in PagesGetOutcomes(local.repo_name) :
          /\ run' = [run EXCEPT !.fault = @ \/ out = "error", !.sleeps = <<>>]
          /\ IF out = "error"
             THEN /\ Raise(Unhandled)
                  /\ UNCHANGED local
             ELSE /\ local' = [local EXCEPT
                        !.pages_url = IF out = "config"
                                      THEN PagesUrl(local.repo_name) ELSE None,
                        !.attempt = 0, !.delay = <<1, 1>>]
                  /\ pc' = "get_commits"
                  /\ UNCHANGED response
    /\ UNCHANGED <<TASKS, task_log, payload, repos, now, year, nreq, populated>>
    /\ UNCHANGED evaluate_vars

\* ------------------------------------------------ get_latest_commit_sha

\* max_retries=6
MaxRetries == 6

\* a delay times num/den; delays are fractions <<numerator, denominator>>
Times(d, num, den) == <<d[1] * num, d[2] * den>>

\* The commit listing: the commits, an empty list (an empty repository, or a
\* listing that does not show the last writes yet), or an exception.
GetCommitsOutcomes(name) ==
    IF repos[name].commits > 0 THEN {"list", "empty", "error"} ELSE {"empty", "error"}

\* commits = list(repo.get_commits()); if commits: return commits[0].sha
GetCommits ==
    /\ pc = "get_commits"
    /\ \E out \in GetCommitsOutcomes(local.repo_name) :
          /\ IF out = "list"
             THEN /\ local' = [local EXCEPT
                        !.commit_sha = <<repos[local.repo_name].commits>>,
                        !.attempt = 0, !.delay = <<1, 1>>]
                  /\ run' = [run EXCEPT !.sleeps = <<>>]
                  /\ pc' = "post_eval"
             ELSE /\ pc' = "commit_sleep"
                  /\ UNCHANGED <<local, run>>
    /\ UNCHANGED <<TASKS, task_log, payload, response, repos, now, year, nreq,
                   populated>>
    /\ UNCHANGED evaluate_vars

\* a polling delay that never grows
NextCommitDelay_flat(d) == d

\* delay *= 1.5
NextCommitDelay(d) == Times(d, 3, 2)

\* time.sleep(delay); delay *= 1.5; the next turn, or return None
CommitSleep ==
    /\ pc = "commit_sleep"
    /\ IF local.attempt + 1 < MaxRetries
       THEN /\ local' = [local EXCEPT !.attempt = @ + 1, !.delay = NextCommitDelay(@)]
            /\ run' = [run EXCEPT !.sleeps = Append(@, local.delay)]
            /\ pc' = "get_commits"
       ELSE /\ local' = [local EXCEPT !.commit_sha = None,
                                      !.attempt = 0, !.delay = <<1, 1>>]
            /\ run' = [run EXCEPT !.sleeps = <<>>]
            /\ pc' = "post_eval"
    /\ UNCHANGED <<TASKS, task_log, payload, response, repos, now, year, nreq,
                   populated>>
    /\ UNCHANGED evaluate_vars

\* ------------------------------------------------------ post_evaluation

\* range(6)
EvalAttempts == 6

\* the evaluator's answer to one POST
EvalOutcomes == {"200", "non200", "error"}

\* r = requests.post(evaluation_url, json=payload, timeout=10); return True
\* on 200
PostEval ==
    /\ pc = "post_eval"
    /\ \E out \in EvalOutcomes :
          /\ run' = [run EXCEPT !.fault = @ \/ out # "200", !.posts = @ + 1]
          /\ pc' = IF out = "200" THEN "respond" ELSE "eval_sleep"
    /\ UNCHANGED <<TASKS, task_log, payload, local, response, repos, now, year,
                   nreq, populated>>
    /\ UNCHANGED evaluate_vars

\* a backoff that never grows
NextEvalDelay_flat(d) == d

\* delay *= 2
NextEvalDelay(d) == Times(d, 2, 1)

\* time.sleep(delay); delay *= 2; the next attempt, or after the last
\* raise HTTPException(500), which task_endpoint does not catch
EvalSleep ==
    /\ pc = "eval_sleep"
    /\ local' = [local EXCEPT !.attempt = @ + 1, !.delay = NextEvalDelay(@)]
    /\ run' = [run EXCEPT !.sleeps = Append(@, local.delay)]
    /\ IF local.attempt + 1 < EvalAttempts
       THEN pc' = "post_eval" /\ UNCHANGED response
       ELSE Raise(HttpError(500, <<"Evaluation POST failed after retries">>))
    /\ UNCHANGED <<TASKS, task_log, payload, repos, now, year, nreq, populated>>
    /\ UNCHANGED evaluate_vars

\* return {"status": "ok", "message": "Task processed", "repo_url": ..., "pages_url": ...}
Respond ==
    /\ pc = "respond"
    /\ response' = [status |-> 200, detail |-> <<"ok", "Task processed">>,
                    repo_url |-> RepoUrl(local.repo_name),
                    pages_url |-> local.pages_url]
    /\ pc' = "done"
    /\ UNCHANGED <<TASKS, task_log, payload, local, repos, now, year, nreq, run,
                   populated>>
    /\ UNCHANGED evaluate_vars

\* The response is out and the coroutine is over: its frame is gone and the
\* event loop takes the next request.
TaskReturn ==
    /\ pc = "done"
    /\ pc' = "idle"
    /\ payload' = None
    /\ local' = InitLocal
    /\ run' = InitRun(<<>>)
    /\ UNCHANGED <<TASKS, task_log, response, repos, now, year, nreq, populated>>
    /\ UNCHANGED evaluate_vars

\* --------------------------------------------------- evaluate_endpoint

\* /evaluate calls that are matched in one behaviour.
MaxEvaluates == 1

\* A JSON value of the body: a string, an integer, an array, or null, which is
\* also what data.get returns for a missing field.
JStr(chars) == [t |-> "str", v |-> chars]

JInt(n) == [t |-> "int", v |-> <<n>>]

JList == [t |-> "list", v |-> <<>>]

JNull == [t |-> "null", v |-> <<>>]

\* the body an evaluator sends back for a /task request
EvalOf(p) == [email |-> JStr(p.email), task |-> JStr(p.task),
              round |-> JInt(p.round), nonce |-> JStr(<<p.nonce>>)]

\* The /evaluate bodies the callers send: the callbacks for two requests, one
\* with a nonce no request had, one with no field at all, one whose email is
\* an array.
EvalRequests ==
    {EvalOf(ReqA1), EvalOf(ReqB1),
     [EvalOf(ReqA1) EXCEPT !.nonce = JStr(<<"n9">>)],
     [email |-> JNull, task |-> JNull, round |-> JNull, nonce |-> JNull],
     [EvalOf(ReqA1) EXCEPT !.email = JList]}

\* key = (data.get("email"), data.get("task"), data.get("round"), data.get("nonce"))
EvalKey(d) == <<d.email, d.task, d.round, d.nonce>>

\* hash(key): a tuple is hashable when its items are; a list is not
Hashable(key) == \A i \in 1..Len(key) : key[i].t # "list"

\* key == k for a key k of TASKS
KeyEquals(key, k) ==
    /\ key[1].t = "str" /\ key[1].v = k[1]
    /\ key[2].t = "str" /\ key[2].v = k[2]
    /\ key[3].t = "int" /\ key[3].v = <<k[3]>>
    /\ key[4].t = "str" /\ key[4].v = <<k[4]>>

\* key in TASKS
InTasks(key) == \E k \in DOMAIN TASKS : KeyEquals(key, k)

\* {"detail": "Not Found - no matching task recorded ..."}
NotMatched == [NoResponse EXCEPT !.status = 200, !.detail = <<"Not Found">>]

\* {"status": "ok", "message": "Evaluation accepted"}
Accepted == [NoResponse EXCEPT !.status = 200, !.detail = <<"ok", "Evaluation accepted">>]

\* POST /evaluate: the body is read, then the handler runs to its return.
\* `key not in TASKS` hashes the key first and raises TypeError for a key that
\* holds an array; nothing catches it.
Evaluate ==
    /\ EventLoopFree
    /\ Len(evaluate_log) < MaxEvaluates
    /\ \E d \in EvalRequests :
          /\ data' = d
          /\ IF ~Hashable(EvalKey(d))
             THEN /\ eval_response' = Unhandled
                  /\ UNCHANGED evaluate_log
             ELSE IF ~InTasks(EvalKey(d))
             THEN /\ eval_response' = NotMatched
                  /\ UNCHANGED evaluate_log
             ELSE /\ evaluate_log' = Append(evaluate_log, [time |-> Stamp, incoming |-> d])
                  /\ eval_response' = Accepted
    /\ UNCHANGED <<TASKS, task_log, pc, payload, local, response, repos, now,
                   year, nreq, run, populated>>

\* ------------------------------------------------------- specification

Next ==
    \/ Tick
    \/ ForeignCreateRepo
    \/ TaskReceive
    \/ VerifySecret
    \/ Record
    \/ Log
    \/ GetRepo
    \/ CreateRepo
    \/ InitReadme
    \/ InitLicense
    \/ Build
    \/ Decode
    \/ GetContents
    \/ UpdateFile
    \/ CreateFile
    \/ PagesMain
    \/ PagesMaster
    \/ PagesGet
    \/ GetCommits
    \/ CommitSleep
    \/ PostEval
    \/ EvalSleep
    \/ Respond
    \/ TaskReturn
    \/ Evaluate

Spec == Init /\ [][Next]_vars

\* ------------------------------------- attachment decoding on its own

\* attachments in one request
MaxAttachments == 3

\* a data URI without a comma
AttNoComma == [name |-> "bad.csv", url |-> <<"data:", "text/csv;base64">>]

\* a payload base64.b64decode refuses (incorrect padding)
AttBadPad == [name |-> "pad.bin", url |-> <<"data:", ";base64", ",", "aGk">>]

\* bytes that are not UTF-8
AttBin == [name |-> "logo.png", url |-> <<"data:", "image/png;base64", ",", "/w==">>]

\* a payload without one base64 character
AttJunk == [name |-> "junk.txt", url |-> <<"data:", ";base64", ",", "@@@">>]

\* no name: skipped
AttNoName == [name |-> "", url |-> AttCsv.url]

DecodeAtts == {AttCsv, AttBin, AttJunk, AttRemote, AttNoComma, AttBadPad, AttNoName}

DecodeRequests ==
    {[ReqA1 EXCEPT !.attachments = a] :
        a \in UNION {[1..n -> DecodeAtts] : n \in 0..MaxAttachments}}

\* ensure_repo has returned a repository it created; build_default_app_files
\* is about to be called
DecodeInit ==
    /\ payload \in DecodeRequests
    /\ TASKS = Put(<<>>, KeyOf(payload), [received_at |-> <<2025, 0>>, payload |-> payload])
    /\ task_log = <<[time |-> <<2025, 0>>, payload |-> payload]>>
    /\ pc = "build"
    /\ local = [InitLocal EXCEPT !.repo_name = RepoNameFor(payload), !.created = TRUE]
    /\ response = NoResponse
    /\ repos = Put(<<>>, RepoNameFor(payload),
                   Commit(Commit(NewRepo(<<"server", KeyOf(payload)>>),
                                 "README.md", InitialReadme),
                          "LICENSE", LicenseText(2025, GITHUB_USERNAME)))
    /\ now = 0
    /\ year = 2025
    /\ nreq = 1
    /\ run = InitRun(<<>>)
    /\ populated = <<>>
    /\ data = None
    /\ eval_response = NoResponse
    /\ evaluate_log = <<>>

DecodeNext == Build \/ Decode

SpecDecode == DecodeInit /\ [][DecodeNext]_vars

\* ------------------------------------- reconciliation under remote writes

\* what decode_attachment_to_files returns for a request with at most one
\* attachment, a fetched one being served body b
DecodedOf(p, b) ==
    IF Len(p.attachments) = 0 THEN EmptyDict
    ELSE DecodeOne(EmptyDict, p.attachments[1], [status |-> "200", text |-> b])

\* the FileSet build_default_app_files then returns
FileSetOf(p, y, b) == DictUpdate(BaseFiles(BriefOf(p), y), DecodedOf(p, b))

\* ensure_repo has created the repository and the FileSet is built: the loop
\* over files.items() is about to start
WriteInit ==
    /\ payload \in {ReqA1, ReqA2, ReqB1}
    /\ TASKS = Put(<<>>, KeyOf(payload), [received_at |-> <<2025, 0>>, payload |-> payload])
    /\ task_log = <<[time |-> <<2025, 0>>, payload |-> payload]>>
    /\ pc = "get_contents"
    /\ \E b \in Bodies :
          local = [InitLocal EXCEPT !.repo_name = RepoNameFor(payload),
                                    !.created = TRUE,
                                    !.files = FileSetOf(payload, 2025, b),
                                    !.decoded = DecodedOf(payload, b),
                                    !.k = 1]
    /\ response = NoResponse
    /\ repos = Put(<<>>, RepoNameFor(payload),
                   Commit(Commit(NewRepo(<<"server", KeyOf(payload)>>),
                                 "README.md", InitialReadme),
                          "LICENSE", LicenseText(2025, GITHUB_USERNAME)))
    /\ now = 0
    /\ year = 2025
    /\ nreq = 1
    /\ run = InitRun(<<>>)
    /\ populated = <<>>
    /\ data = None
    /\ eval_response = NoResponse
    /\ evaluate_log = <<>>

WriteNext == ForeignWrite \/ GetContents \/ UpdateFile \/ CreateFile

SpecWrite == WriteInit /\ [][WriteNext]_vars

\* ------------------------------------- identity resolution on its own

\* a string of n times the character c
Repeat(c, n) == [i \in 1..n |-> c]

\* email addresses of callers: plain, with a tag, with an underscore, with a
\* space, with a slash, without "@", with nothing before "@", and a long one
NameEmails ==
    {EmailA,
     <<"a", "+", "b", "@", "x">>,
     <<"J", "_", "D", "@", "x">>,
     <<"a", " ", "b", "@", "x">>,
     <<"a", "/", "b", "@", "x">>,
     <<"n", "o", "a", "t">>,
     <<"@", "x">>,
     Repeat("u", 60) \o <<"@", "x">>}

\* task names: plain, empty, with punctuation, and one longer than the slice
NameTasks ==
    {TaskA, TaskB, <<>>,
     <<"C", "a", "p", "!">>,
     <<"a", ".", "b">>,
     <<"x", "/", "y">>,
     Repeat("T", TaskCleanLen + 1)}

NameRequests ==
    {[ReqB1 EXCEPT !.email = e, !.task = t] : e \in NameEmails, t \in NameTasks}

\* task_endpoint has recorded a request and is about to resolve its name
NameInit ==
    /\ payload \in NameRequests
    /\ TASKS = Put(<<>>, KeyOf(payload), [received_at |-> <<2025, 0>>, payload |-> payload])
    /\ task_log = <<>>
    /\ pc = "log"
    /\ local = InitLocal
    /\ response = NoResponse
    /\ repos = <<>>
    /\ now = 0
    /\ year = 2025
    /\ nreq = 1
    /\ run = InitRun(<<>>)
    /\ populated = <<>>
    /\ data = None
    /\ eval_response = NoResponse
    /\ evaluate_log = <<>>

NameNext == Log

SpecName == NameInit /\ [][NameNext]_vars

\* ------------------------------------------------------------- claims

\* the handler has taken a step (the environment's steps leave pc alone)
HandlerStep == pc' # pc

\* the repository holds every path of a FileSet with the FileSet's content
HoldsFileSet(rs, name, fs) ==
    /\ name \in DOMAIN rs
    /\ \A path \in Range(fs.keys) :
          /\ path \in DOMAIN rs[name].files
          /\ rs[name].files[path] = fs.val[path]

\* the run found its repository populated by the identical request and no
\* repository call, Pages call or evaluation POST failed
CleanResubmission == pc = "done" /\ run.resub /\ ~run.fault

\* the run answered without error and left the repository's paths and
\* contents as it found them
SameAsBefore ==
    /\ response.status = 200
    /\ repos[local.repo_name].files = run.pre[local.repo_name].files

AfterEnsure ==
    {"build", "decode", "get_contents", "update_file", "create_file", "pages_main",
     "pages_master", "pages_get", "get_commits", "commit_sleep", "post_eval",
     "eval_sleep", "respond"}

\* the (email, task) of a key
Pair(key) == <<key[1], key[2]>>

\* the repositories this server created for an (email, task)
CreatedFor(pair) ==
    {n \in DOMAIN repos : repos[n].origin[1] = "server" /\ Pair(repos[n].origin[2]) = pair}

\* C2: requests that share (email, task) and differ in round and nonce
\* resolve to one repository name; the repository is created at most once, by
\* a request that found it absent, and every other request reuses that
\* repository instead of creating another: a request that finds the
\* repository and meets no failing call answers 200 without creating, and
\* the repository then holds its FileSet.
C2_OneRepository ==
    /\ \A k \in DOMAIN TASKS : Cardinality(CreatedFor(Pair(k))) <= 1
    /\ (/\ pc = "done"
        /\ response.status # 403
        /\ ~run.fault
        /\ RepoNameFor(payload) \in DOMAIN run.pre)
          => /\ ~local.created
             /\ response.status = 200
             /\ HoldsFileSet(repos, RepoNameFor(payload), local.files)
    /\ pc \in AfterEnsure =>
          /\ local.repo_name \in DOMAIN repos
          /\ CreatedFor(Pair(KeyOf(payload))) \subseteq {local.repo_name}
          /\ local.created =>
                /\ local.repo_name \notin DOMAIN run.pre
                /\ repos[local.repo_name].origin = <<"server", KeyOf(payload)>>
          /\ ~local.created =>
                repos[local.repo_name].origin # <<"server", KeyOf(payload)>>
                    \/ local.repo_name \in DOMAIN run.pre

C2_Witness ==
    /\ pc = "pages_main"
    /\ payload.round = 2
    /\ ~local.created
    /\ repos[local.repo_name].origin = <<"server", KeyOf(ReqA1)>>
    /\ repos[local.repo_name].files["index.html"] = <<"index.html", payload.brief>>

\* C3: when the evaluator refuses the first four POSTs and answers 200 to the
\* fifth, post_evaluation returns success after exactly five POSTs, having
\* slept 1, 2, 4, 8 seconds, each delay twice the one before, and no sixth
\* POST is made.
C3_FifthAttempt ==
    (pc \in {"respond", "done"} /\ response.status \in {0, 200} /\ local.attempt = 4)
        => /\ run.posts = 5
           /\ run.sleeps = << <<1, 1>>, <<2, 1>>, <<4, 1>>, <<8, 1>> >>
           /\ \A i \in 1..(Len(run.sleeps) - 1) :
                 run.sleeps[i + 1][1] = 2 * run.sleeps[i][1]
           /\ pc = "done" => response.status = 200

C3_Witness ==
    /\ pc = "done"
    /\ response.status = 200
    /\ local.attempt = 4
    /\ run.posts = 5

\* C6: a /task request whose secret is not the configured one is answered
\* 403 by the step that checks it, and that step changes neither TASKS nor
\* the task log nor any repository, and sends nothing; the handler is over.
C6_RejectNoEffect ==
    [][(pc = "verify" /\ payload.secret # SECRET /\ HandlerStep)
          => /\ pc' = "done"
             /\ response'.status = 403
             /\ UNCHANGED <<TASKS, task_log, repos, run, populated, local>>]_vars

C6_Witness ==
    /\ pc = "done"
    /\ payload.secret # SECRET
    /\ response.status = 403
    /\ run.posts = 0
    /\ local = InitLocal

\* C4 as stated: when every evaluation POST fails, post_evaluation makes the
\* six attempts and then hands a failure back to task_endpoint: after each
\* sleep control is at the next attempt or back in task_endpoint at its return
\* statement, never out of the handler.
C4_Claim ==
    [][(pc = "eval_sleep" /\ HandlerStep)
          => /\ pc' \in {"post_eval", "respond"}
             /\ run'.posts <= EvalAttempts]_vars

\* all six evaluation POSTs of the run failed
EvalExhausted == pc = "done" /\ local.attempt = EvalAttempts /\ run.posts = EvalAttempts

\* C5 as stated: when the repository was provisioned and the notification
\* exhausted its attempts, the /task response reports the failure and still
\* carries the repository URL and the hosting URL.
C5_Claim ==
    EvalExhausted
        => /\ response.status # 200
           /\ response.repo_url = RepoUrl(local.repo_name)
           /\ response.pages_url = local.pages_url

\* C7 as stated: when the update of a path and then its create are refused,
\* the failure stays with that path: the loop goes on to the next path, and
\* after the last to hosting activation.
C7_Claim ==
    [][(pc = "create_file" /\ local.sha # None /\ HandlerStep)
          => pc' \in {"get_contents", "pages_main"}]_vars

\* C8 as stated: when the lookup found no repository and the create is then
\* refused because another attempt has created it meanwhile, the handler does
\* not fail: it goes on with the existing repository.
C8_Claim ==
    [][(/\ pc = "create_repo"
        /\ ~run.fault
        /\ local.repo_name \in DOMAIN repos
        /\ HandlerStep
        /\ ~run'.fault)
          => pc' # "done"]_vars

\* C9 as stated: a primary activation that does not succeed is followed by
\* the alternate activation; the configuration is read only after both
\* activations failed; a primary activation that succeeds ends the hosting
\* requests.
C9_Claim ==
    [][/\ (pc = "pages_main" /\ HandlerStep /\ local'.pages_url = None)
             => pc' = "pages_master"
       /\ (pc = "pages_main" /\ HandlerStep /\ local'.pages_url # None)
             => pc' = "get_commits"
       /\ (pc' = "pages_get" /\ HandlerStep)
             => (pc = "pages_master" /\ local.pages_url = None)]_vars

\* C10 as stated: however the two activations and the configuration read
\* fail, hosting activation does not end the task: the handler goes on, and
\* when nothing succeeded it polls the commits with pages_url None.
C10_Claim ==
    [][(pc \in {"pages_main", "pages_master", "pages_get"} /\ HandlerStep)
          => /\ pc' \in {"pages_master", "pages_get", "get_commits"}
             /\ (pc' = "get_commits" /\ ~repos'[local.repo_name].pages)
                   => local'.pages_url = None]_vars

\* a delay a is shorter than a delay b (fractions with positive denominators)
Shorter(a, b) == a[1] * b[2] < b[1] * a[2]

\* C11: get_latest_commit_sha polls at most max_retries times with a growing
\* delay between polls; the first poll that lists commits returns the newest
\* one; a poll that fails or lists nothing is followed by a sleep and the next
\* poll, and after the last poll by the return of None: control then stands at
\* the evaluation notification, never out of the handler.
C11_BoundedPolling ==
    [][/\ (pc = "get_commits" /\ HandlerStep)
             => /\ local.attempt < MaxRetries
                /\ pc' \in {"post_eval", "commit_sleep"}
                /\ pc' = "post_eval"
                      => /\ repos[local.repo_name].commits > 0
                         /\ local'.commit_sha = <<repos[local.repo_name].commits>>
                /\ pc' = "commit_sleep" => UNCHANGED local
       /\ (pc = "commit_sleep" /\ HandlerStep)
             => /\ pc' \in {"get_commits", "post_eval"}
                /\ pc' = "get_commits"
                      => /\ local'.attempt = local.attempt + 1
                         /\ local'.attempt < MaxRetries
                         /\ Shorter(local.delay, local'.delay)
                         /\ run'.sleeps = Append(run.sleeps, local.delay)
                /\ pc' = "post_eval"
                      => /\ local.attempt + 1 = MaxRetries
                         /\ local'.commit_sha = None
                         /\ run'.posts = 0]_vars

\* the sixth poll has failed after sleeps of 1, 1.5, 2.25, 3.375, 5.0625 s
C11_Witness ==
    /\ pc = "commit_sleep"
    /\ local.attempt = MaxRetries - 1
    /\ repos[local.repo_name].commits > 0
    /\ run.sleeps = << <<1, 1>>, <<3, 2>>, <<9, 4>>, <<27, 8>>, <<81, 16>> >>


\* an /evaluate call has been answered and no /task has arrived since
Evaluated == pc = "idle" /\ pc' = "idle" /\ eval_response' # NoResponse

\* C12 as stated: an /evaluate call whose (email, task, round, nonce) no
\* accepted /task call recorded is answered with the normal not-matched
\* response, whatever the four fields are, and TASKS stays as it was.
C12_Claim ==
    [][(Evaluated /\ ~InTasks(EvalKey(data')))
          => /\ eval_response' = NotMatched
             /\ TASKS' = TASKS]_vars

\* C13: a key stays in TASKS once it is there; a /task request that has
\* passed the secret check has its (email, task, round, nonce) in TASKS from
\* the next statement on, however its run ends; an /evaluate call that
\* carries a recorded key is answered 'Evaluation accepted'.
C13_Retained ==
    [][/\ \A k \in DOMAIN TASKS : k \in DOMAIN TASKS'
       /\ (pc' \notin {"idle", "verify", "record"} /\ payload'.secret = SECRET)
             => <<payload'.email, payload'.task, payload'.round, payload'.nonce>>
                   \in DOMAIN TASKS'
       /\ \A p \in TaskRequests :
             (/\ Evaluated
              /\ data' = EvalOf(p)
              /\ <<p.email, p.task, p.round, p.nonce>> \in DOMAIN TASKS)
                => eval_response' = Accepted]_vars

\* the run of ReqA1 ended with an error, a later callback for it is accepted
C13_Witness ==
    /\ pc = "idle"
    /\ response.status = 500
    /\ eval_response = Accepted
    /\ data = EvalOf(ReqA1)
    /\ Len(evaluate_log) = 1

\* C14 as stated: the entry TASKS holds for a key is never changed once it
\* is written, a second delivery of the same round included.
C14_Claim ==
    [][\A k \in DOMAIN TASKS : k \in DOMAIN TASKS' /\ TASKS'[k] = TASKS[k]]_vars

\* C15 as stated: while a /task handler waits between two polls of the commit
\* listing or between two evaluation POSTs, the server can take the next
\* request, /task or /evaluate.
C15_Claim ==
    (pc \in {"commit_sleep", "eval_sleep"} /\ nreq < MaxRequests)
        => ENABLED (TaskReceive \/ Evaluate)


\* C16 as stated: whatever the email and the task, the repository name is
\* made of lowercase letters, digits, '-' and '_' only, and its length stays
\* under a bound that does not depend on them (here the 100 characters a
\* GitHub repository name may have).
C16_Claim ==
    pc = "get_repo"
        => /\ \A i \in 1..Len(local.repo_name) :
                 local.repo_name[i] \in Range(LOWER) \cup DIGITS \cup {"-", "_"}
           /\ Len(local.repo_name) <= 100


\* the attachment the decoder is about to handle
CurAtt == payload.attachments[local.k]

C18_Claim ==
    [][(/\ pc = "update_file"
        /\ Sha(repos[local.repo_name].files[CurPath]) # local.sha
        /\ HandlerStep
        /\ run'.refused)
          => /\ pc' = "get_contents"
             /\ local'.k = local.k]_vars


\* the handler positions from the first repository call to the last
RepositorySteps ==
    {"get_repo", "create_repo", "init_readme", "init_license", "get_contents",
     "update_file", "create_file"}

\* C19 as stated: the registry record is written before anything else; the
\* FileSet is built before any call that touches the repository (lookup,
\* create, initial commits, writes); hosting activation starts after the last
\* write; the notification is sent after revision observation, last.
C19_Claim ==
    /\ (pc \in RepositorySteps \cup {"log", "build", "decode"})
          => <<payload.email, payload.task, payload.round, payload.nonce>> \in DOMAIN TASKS
    /\ pc \in RepositorySteps
          => /\ {"index.html", "README.md", "LICENSE"} \subseteq Range(local.files.keys)
             /\ local.k \in 1..Len(local.files.keys)
    /\ pc \in {"pages_main", "pages_master", "pages_get", "get_commits", "commit_sleep"}
          => /\ local.k = Len(local.files.keys) + 1
             /\ run.posts = 0
    /\ run.posts > 0 => pc \in {"post_eval", "eval_sleep", "respond", "done"}

\* C20: no step of the handler removes a repository or a path; the only
\* content that changes is that of the path being written, which becomes the
\* FileSet's content for it; so a path an earlier round wrote and the latest
\* FileSet lacks keeps the content of the last round that wrote it.  When the
\* loop over the FileSet is through, every path of the FileSet holds the
\* FileSet's content, README.md and LICENSE included.
C20_AddOrUpdateOnly ==
    [][/\ \A n \in DOMAIN repos :
             /\ n \in DOMAIN repos'
             /\ \A path \in DOMAIN repos[n].files :
                   /\ path \in DOMAIN repos'[n].files
                   /\ repos'[n].files[path] # repos[n].files[path]
                         => /\ pc \in {"update_file", "create_file"}
                            /\ n = local.repo_name
                            /\ path = CurPath
                            /\ repos'[n].files[path] = CurContent
       /\ (pc \in {"update_file", "create_file"} /\ pc' = "pages_main")
             => HoldsFileSet(repos', local.repo_name, local.files)]_vars

\* round 2 has been answered 200: the repository holds round 2's FileSet and
\* still holds data.csv as round 1 wrote it
C20_Witness ==
    /\ pc = "done"
    /\ response.status = 200
    /\ payload.round = 2
    /\ ~local.created
    /\ "data.csv" \notin Range(local.files.keys)
    /\ "data.csv" \in DOMAIN repos[local.repo_name].files
    /\ repos[local.repo_name].files["data.csv"] = <<"utf-8", <<104, 105>> >>
    /\ repos[local.repo_name].files["README.md"] = <<"Auto-generated App", <<"brief-2">> >>
    /\ "input.md" \in DOMAIN repos[local.repo_name].files
    /\ repos[local.repo_name].files["input.md"] \in Bodies


=============================================================================
